---- MODULE Spec2Model ----
(***************************************************************************)
(* Vigilis client: the transcript / incident relay workflow.               *)
(*                                                                         *)
(*   app/services/transcriptService.ts  sendTranscript,                    *)
(*                                      notifyCivilianCallStarted          *)
(*   unnamed/part_000                   an older transcriptService whose   *)
(*                                      notifyCivilianCallStarted has no   *)
(*                                      404 fallback                       *)
(*   unnamed/part_001                   transcribeAudio                    *)
(*   app/(tabs)/index.tsx, police.tsx   the civilian and police screens    *)
(*                                                                         *)
(* A JavaScript string is a sequence of tokens (each token a piece of      *)
(* text), so that template literals are concatenations, startsWith is a    *)
(* test of the first token and "contains" is a test for a subsequence.     *)
(***************************************************************************)
EXTENDS Integers, Sequences, FiniteSets, TLC

VARIABLES
    (* ---- service calls ---- *)
    xcall,        \* the transcribeAudio call (one at a time: see stopRecording)
    scall,        \* the sendTranscript call made by handleSend / a direct caller
    ncalls,       \* notifyCivilianCallStarted calls, each with its fallback sendTranscript
    lcall,        \* a call of the older notifyCivilianCallStarted (part_000)
    (* ---- device identity ---- *)
    storage,      \* AsyncStorage value under DEVICE_ID_KEY
    initTask,     \* per screen: the initDeviceId execution of its mount effect
    deviceId,     \* per screen: the deviceId React state
    (* ---- one screen's React state and running handlers ---- *)
    screen,       \* which screen the workflow below is the state of
    platform,     \* Platform.OS
    permission,   \* permissionResponse?.granted
    recording, isRecording, transcript, isLoading,
    sendLoading, sendError, sendSuccess,
    startTasks,   \* running startRecording handlers
    stopTask,     \* the running stopRecording handler
    sendTask,     \* the running handleSend handler
    opened        \* Audio.Recording objects created and not yet stopped

svcVars    == <<xcall, scall, ncalls, lcall>>
idVars     == <<storage, initTask, deviceId>>
screenVars == <<screen, platform, permission, recording, isRecording, transcript, isLoading,
                sendLoading, sendError, sendSuccess, startTasks, stopTask, sendTask,
                opened>>
vars       == <<svcVars, idVars, screenVars>>

(***************************************************************************)
(* Strings                                                                 *)
(***************************************************************************)
EmptyStr == <<>>

\* String.prototype.startsWith(prefix), prefix a single token
StartsWith(s, tok) == Len(s) > 0 /\ s[1] = tok

\* String.prototype.includes(part)
Contains(s, part) ==
    \E i \in 1..(Len(s) - Len(part) + 1) : SubSeq(s, i, i + Len(part) - 1) = part

\* Array.prototype.join(' ') over an array of strings
RECURSIVE JoinSpace(_)
JoinSpace(texts) ==
    IF Len(texts) = 0 THEN EmptyStr
    ELSE IF Len(texts) = 1 THEN texts[1]
    ELSE texts[1] \o <<" ">> \o JoinSpace(Tail(texts))

(***************************************************************************)
(* JSON values: the bodies a speech-to-text response can carry             *)
(***************************************************************************)
MaxChannels == 2

Absent      == [k |-> "absent"]          \* a property the object does not have
JNull       == [k |-> "null"]
JBool(b)    == [k |-> "bool", b |-> b]
JNum(n)     == [k |-> "num", n |-> n]
JStr(s)     == [k |-> "str", s |-> s]
JArr(items) == [k |-> "arr", items |-> items]
Unparseable == [k |-> "unparseable"]     \* a body that is not JSON

\* One element of a `channels` array: null, or an object with some of the
\* properties content, text, transcript.
ChannelElems ==
    {JNull} \cup
    [k : {"obj"},
     content    : {Absent, JStr(EmptyStr), JStr(<<"cc">>)},
     text       : {Absent, JStr(EmptyStr), JStr(<<"ct">>)},
     transcript : {Absent, JStr(<<"cr">>)}]

ChannelArrays == UNION {[1..n -> ChannelElems] : n \in 0..MaxChannels}

Objects ==
    [k : {"obj"},
     text       : {Absent, JNum(5), JStr(EmptyStr), JStr(<<"t">>)},
     content    : {Absent, JNum(5), JStr(<<"c">>)},
     transcript : {Absent, JStr(<<"r">>)},
     channels   : {Absent, JStr(<<"x">>)} \cup {JArr(a) : a \in ChannelArrays}]

Bodies ==
    {Unparseable, JNull, JBool(TRUE), JBool(FALSE), JNum(0), JNum(5),
     JStr(EmptyStr), JStr(<<"hello">>), JArr(<<>>), JArr(<<JStr(<<"hello">>)>>)}
    \cup Objects

\* JavaScript truthiness (`!data`, `a || b`, filter(Boolean))
Truthy(v) ==
    CASE v.k = "absent"      -> FALSE
      [] v.k = "null"        -> FALSE
      [] v.k = "unparseable" -> FALSE
      [] v.k = "bool"        -> v.b
      [] v.k = "num"         -> v.n # 0
      [] v.k = "str"         -> v.s # EmptyStr
      [] OTHER               -> TRUE

IsStr(v) == v.k = "str"

\* `'f' in data && typeof data.f === 'string'` for an object or array `data`
HasStrText(data)       == data.k = "obj" /\ IsStr(data.text)
HasStrContent(data)    == data.k = "obj" /\ IsStr(data.content)
HasStrTranscript(data) == data.k = "obj" /\ IsStr(data.transcript)
HasChannelsArray(data) == data.k = "obj" /\ data.channels.k = "arr"

\* c.content || c.text || c.transcript
ChannelText(c) ==
    IF Truthy(c.content) THEN c.content
    ELSE IF Truthy(c.text) THEN c.text
    ELSE c.transcript

\* channels.map(...).filter(Boolean), as the array of the strings kept
RECURSIVE ChannelTexts(_)
ChannelTexts(items) ==
    IF Len(items) = 0 THEN <<>>
    ELSE LET v == ChannelText(items[1])
         IN  (IF Truthy(v) THEN <<v.s>> ELSE <<>>) \o ChannelTexts(Tail(items))

\* JSON.stringify
RECURSIVE StringifyItems(_, _)
StringifyMember(name, v, str) ==
    IF v.k = "absent" THEN <<>> ELSE <<name>> \o str
StringifyScalar(v) ==
    CASE v.k = "null"   -> <<"null">>
      [] v.k = "bool"   -> <<IF v.b THEN "true" ELSE "false">>
      [] v.k = "num"    -> <<ToString(v.n)>>
      [] v.k = "str"    -> <<"\"">> \o v.s \o <<"\"">>
      [] OTHER          -> <<>>
StringifyChannel(c) ==
    IF c.k = "null" THEN <<"null">>
    ELSE <<"{">> \o StringifyMember("content:", c.content, StringifyScalar(c.content))
                 \o StringifyMember("text:", c.text, StringifyScalar(c.text))
                 \o StringifyMember("transcript:", c.transcript, StringifyScalar(c.transcript))
                 \o <<"}">>
StringifyItems(items, isChannel) ==
    IF Len(items) = 0 THEN <<>>
    ELSE (IF isChannel THEN StringifyChannel(items[1]) ELSE StringifyScalar(items[1]))
         \o (IF Len(items) > 1 THEN <<",">> ELSE <<>>)
         \o StringifyItems(Tail(items), isChannel)
Stringify(v) ==
    CASE v.k = "arr" -> <<"[">> \o StringifyItems(v.items, FALSE) \o <<"]">>
      [] v.k = "obj" ->
            <<"{">> \o StringifyMember("text:", v.text, StringifyScalar(v.text))
                    \o StringifyMember("content:", v.content, StringifyScalar(v.content))
                    \o StringifyMember("transcript:", v.transcript,
                                       StringifyScalar(v.transcript))
                    \o StringifyMember("channels:", v.channels,
                          IF v.channels.k = "arr"
                          THEN <<"[">> \o StringifyItems(v.channels.items, TRUE) \o <<"]">>
                          ELSE StringifyScalar(v.channels))
                    \o <<"}">>
      [] OTHER -> StringifyScalar(v)

(***************************************************************************)
(* What an async call has produced: nothing yet, a value, or a thrown Error *)
(***************************************************************************)
Pending        == [kind |-> "none"]
Returned(v)    == [kind |-> "ok", val |-> v]
Thrown(n, m)   == [kind |-> "err", name |-> n, msg |-> m]

\* Error messages the platform produces (not this repository's text)
NetworkMsg   == <<"Network request failed">>
BodyReadMsg  == <<"Failed to read response body">>
JsonParseMsg == <<"JSON Parse error">>
InOperatorMsg == <<"Cannot use 'in' operator to search for 'text'">>
NullPropertyMsg == <<"Cannot read properties of null (reading 'content')">>

(***************************************************************************)
(* transcribeAudio: the text taken from a success response                 *)
(***************************************************************************)
NoTranscriptionText == <<"No transcription returned from ElevenLabs.">>
UnexpectedPrefix    == <<"Unexpected transcription response: ">>

\* `await res.json().catch(() => null)`
ParseBody(body) == IF body.k = "unparseable" THEN JNull ELSE body

\* Variant of ExtractText with a plausible slip: `content` tried before `text`.
ExtractText_ContentFirst(data) ==
    IF ~Truthy(data) THEN Returned(NoTranscriptionText)
    ELSE IF data.k = "str" THEN Returned(data.s)
    ELSE IF data.k \in {"num", "bool"} THEN Thrown("TypeError", InOperatorMsg)
    ELSE IF HasStrContent(data) THEN Returned(data.content.s)
    ELSE IF HasStrText(data) THEN Returned(data.text.s)
    ELSE IF HasStrTranscript(data) THEN Returned(data.transcript.s)
    ELSE IF /\ HasChannelsArray(data)
            /\ \E i \in 1..Len(data.channels.items) : data.channels.items[i].k = "null"
         THEN Thrown("TypeError", NullPropertyMsg)
    ELSE IF /\ HasChannelsArray(data)
            /\ Len(ChannelTexts(data.channels.items)) > 0
         THEN Returned(JoinSpace(ChannelTexts(data.channels.items)))
    ELSE Returned(UnexpectedPrefix \o Stringify(data))

\* The statements after `const data = ...`: the value returned or the error
\* thrown.  `'text' in data` throws a TypeError on a number or a boolean, and
\* `c.content` throws one on a null element of `channels`.
ExtractText(data) ==
    IF ~Truthy(data) THEN Returned(NoTranscriptionText)
    ELSE IF data.k = "str" THEN Returned(data.s)
    ELSE IF data.k \in {"num", "bool"} THEN Thrown("TypeError", InOperatorMsg)
    ELSE IF HasStrText(data) THEN Returned(data.text.s)
    ELSE IF HasStrContent(data) THEN Returned(data.content.s)
    ELSE IF HasStrTranscript(data) THEN Returned(data.transcript.s)
    ELSE IF /\ HasChannelsArray(data)
            /\ \E i \in 1..Len(data.channels.items) : data.channels.items[i].k = "null"
         THEN Thrown("TypeError", NullPropertyMsg)
    ELSE IF /\ HasChannelsArray(data)
            /\ Len(ChannelTexts(data.channels.items)) > 0
         THEN Returned(JoinSpace(ChannelTexts(data.channels.items)))
    ELSE Returned(UnexpectedPrefix \o Stringify(data))

(***************************************************************************)
(* HTTP                                                                    *)
(***************************************************************************)
\* Response.ok
Ok(status) == status \in 200..299

\* Response.statusText
StatusText(status) ==
    CASE status = 404 -> "Not Found"
      [] status = 422 -> "Unprocessable Entity"
      [] status = 500 -> "Internal Server Error"
      [] OTHER        -> "OK"

\* What reading a response body gives: the text, or a failure of the read
ReadFailed   == [ok |-> FALSE, text |-> EmptyStr]
ReadText(t)  == [ok |-> TRUE, text |-> t]

(***************************************************************************)
(* transcribeAudio (unnamed/part_001)                                      *)
(*   st: idle, fetching (await fetch), text (await res.text() of an error  *)
(*   response), json (await res.json()), done                              *)
(*   timer: the setTimeout that aborts the request: none, armed, cleared,  *)
(*   fired;  elapsed: timeoutMs have passed since the call was made        *)
(***************************************************************************)
ApiKeyMsg         == <<"ElevenLabs API key not configured (EXPO_PUBLIC_ELEVENLABS_API_KEY)">>
TranscribeTimeoutMsg == <<"Transcription request timed out">>
STTFailedMsg(status, text) ==
    <<"ElevenLabs STT request failed: ", ToString(status), " ", StatusText(status), " ">>
    \o text

XIdle == [st |-> "idle", timer |-> "none", elapsed |-> FALSE, status |-> 0,
          data |-> JNull, out |-> Pending]

\* catch (err) { if (err.name === 'AbortError') throw new Error(...); throw err; }
XCatch(out) ==
    IF out.kind = "err" /\ out.name = "AbortError"
    THEN Thrown("Error", TranscribeTimeoutMsg)
    ELSE out

\* the call up to `await fetch(...)`
XBegin(configured) ==
    IF ~configured
    THEN [XIdle EXCEPT !.st = "done", !.out = Thrown("Error", ApiKeyMsg)]
    ELSE [XIdle EXCEPT !.st = "fetching", !.timer = "armed"]

\* fetch resolves; clearTimeout(timeout); then the body is read
XOnHeaders(c, status) ==
    [c EXCEPT !.timer = "cleared", !.status = status,
              !.st = IF Ok(status) THEN "json" ELSE "text"]

\* fetch rejects for a reason other than the abort; the timer is left running
XOnFetchError(c) ==
    [c EXCEPT !.st = "done", !.out = XCatch(Thrown("TypeError", NetworkMsg))]

\* timeoutMs elapse: the timer callback, if still armed, aborts the controller,
\* and a fetch still pending rejects with an AbortError
XOnElapse(c) ==
    IF c.timer = "armed"
    THEN IF c.st = "fetching"
         THEN [c EXCEPT !.elapsed = TRUE, !.timer = "fired", !.st = "done",
                        !.out = XCatch(Thrown("AbortError", <<"Aborted">>))]
         ELSE [c EXCEPT !.elapsed = TRUE, !.timer = "fired"]
    ELSE [c EXCEPT !.elapsed = TRUE]

\* `await res.text().catch(() => '')` of a non-success response, then the throw
XOnErrText(c, read) ==
    [c EXCEPT !.st = "done",
              !.out = XCatch(Thrown("Error",
                         STTFailedMsg(c.status, IF read.ok THEN read.text ELSE EmptyStr)))]

\* `await res.json().catch(() => null)` of a success response, then the extraction
XOnJson(c, body) ==
    [c EXCEPT !.st = "done", !.data = ParseBody(body),
              !.out = XCatch(ExtractText(ParseBody(body)))]

(***************************************************************************)
(* sendTranscript (app/services/transcriptService.ts)                      *)
(***************************************************************************)
SendTimeoutMsg == <<"Request timed out sending transcript">>
SendFailedMsg(status, body) ==
    <<"Failed to send transcript: ", ToString(status), " ">> \o body

NoArgs == [transcript |-> EmptyStr, sessionId |-> "", timeoutMs |-> 0, caller |-> ""]
NoReq  == [url |-> "", incident_id |-> "", transcript |-> EmptyStr, caller |-> ""]

SIdle == [st |-> "idle", args |-> NoArgs, req |-> NoReq, timer |-> "none",
          elapsed |-> FALSE, status |-> 0, out |-> Pending]

\* The request body: JSON.stringify of {incident_id, transcript, caller}.  The
\* three are strings, which JSON carries unchanged to the server's parser.
SendPayload(text, sessionId, caller) ==
    [url |-> "/incident/update_transcript", incident_id |-> sessionId,
     transcript |-> text, caller |-> caller]

SCatch(out) ==
    IF out.kind = "err" /\ out.name = "AbortError"
    THEN Thrown("Error", SendTimeoutMsg)
    ELSE out

\* the call up to `await fetch(...)`
SBegin(text, sessionId, timeoutMs, caller) ==
    [SIdle EXCEPT !.st = "fetching", !.timer = "armed",
                  !.args = [transcript |-> text, sessionId |-> sessionId,
                            timeoutMs |-> timeoutMs, caller |-> caller],
                  !.req = SendPayload(text, sessionId, caller)]

\* fetch resolves; clearTimeout(timeout); then the body is read
SOnHeaders(c, status) ==
    [c EXCEPT !.timer = "cleared", !.status = status,
              !.st = IF Ok(status) THEN "json" ELSE "text"]

\* fetch rejects for a reason other than the abort; finally clears the timer
SOnFetchError(c) ==
    [c EXCEPT !.st = "done", !.timer = "cleared",
              !.out = SCatch(Thrown("TypeError", NetworkMsg))]

SOnElapse(c) ==
    IF c.timer = "armed"
    THEN IF c.st = "fetching"
         THEN [c EXCEPT !.elapsed = TRUE, !.timer = "fired", !.st = "done",
                        !.out = SCatch(Thrown("AbortError", <<"Aborted">>))]
         ELSE [c EXCEPT !.elapsed = TRUE, !.timer = "fired"]
    ELSE [c EXCEPT !.elapsed = TRUE]

\* `await res.text()` of a non-success response (no catch), then the throw
SOnErrText(c, read) ==
    [c EXCEPT !.st = "done",
              !.out = SCatch(IF read.ok
                             THEN Thrown("Error", SendFailedMsg(c.status, read.text))
                             ELSE Thrown("TypeError", BodyReadMsg))]

\* `return res.json()`: the parsed AddTranscriptResponse, or the parse error
SOnJson(c, resp) ==
    [c EXCEPT !.st = "done",
              !.out = IF resp.k = "unparseable"
                      THEN Thrown("SyntaxError", JsonParseMsg)
                      ELSE Returned(resp)]

(***************************************************************************)
(* notifyCivilianCallStarted (app/services/transcriptService.ts)           *)
(*   st: idle, fetching, text (await res.text() of a non-success           *)
(*   response), fallback (await sendTranscript(...)), done                 *)
(*   fb: the fallback sendTranscript call;  nreq: the update_transcript    *)
(*   requests this call has issued                                         *)
(***************************************************************************)
FallbackTimeoutMs == 5000

NotifyFailedMsg(status, body) ==
    <<"Failed to notify call started: ", ToString(status), " ">> \o body
FallbackFailedMsg(femsg) ==
    <<"Failed to notify call started (", "404", ") and fallback failed: ">> \o femsg

NoNReq == [url |-> "", incident_id |-> "", caller |-> "", timestamp |-> ""]

NIdle == [st |-> "idle", sessionId |-> "", req |-> NoNReq, status |-> 0,
          errorBody |-> EmptyStr, fb |-> SIdle, nreq |-> 0, out |-> Pending]

\* the call up to `await fetch(...)`: no AbortController, no timer
NBegin(sessionId) ==
    [NIdle EXCEPT !.st = "fetching", !.sessionId = sessionId,
                  !.req = [url |-> "/incident/callStarted", incident_id |-> sessionId,
                           caller |-> "civilian", timestamp |-> "now"]]

\* fetch rejects: nothing catches it
NOnFetchError(c) ==
    [c EXCEPT !.st = "done", !.out = Thrown("TypeError", NetworkMsg)]

\* fetch resolves: `return res` when res.ok, else the body is read
NOnHeaders(c, status) ==
    IF Ok(status)
    THEN [c EXCEPT !.status = status, !.st = "done", !.out = Returned("res")]
    ELSE [c EXCEPT !.status = status, !.st = "text"]

\* Variants of NOnErrText with a plausible slip: the fallback call made with
\* sendTranscript's default timeout and caller; the fallback made for every
\* non-success status.
NOnErrText_DefaultArgs(c, read) ==
    LET errorBody == IF read.ok THEN read.text ELSE EmptyStr
    IN  IF c.status = 404
        THEN [c EXCEPT !.errorBody = errorBody, !.st = "fallback",
                       !.fb = SBegin(EmptyStr, c.sessionId, 15000, "unknown"),
                       !.nreq = @ + 1]
        ELSE [c EXCEPT !.errorBody = errorBody, !.st = "done",
                       !.out = Thrown("Error", NotifyFailedMsg(c.status, errorBody))]
NOnErrText_FallbackOnAnyError(c, read) ==
    LET errorBody == IF read.ok THEN read.text ELSE EmptyStr
    IN  [c EXCEPT !.errorBody = errorBody, !.st = "fallback",
                  !.fb = SBegin(EmptyStr, c.sessionId, FallbackTimeoutMs, "civilian"),
                  !.nreq = @ + 1]

\* `await res.text().catch(() => '')`, then the 404 branch or the throw
NOnErrText(c, read) ==
    LET errorBody == IF read.ok THEN read.text ELSE EmptyStr
    IN  IF c.status = 404
        THEN [c EXCEPT !.errorBody = errorBody, !.st = "fallback",
                       !.fb = SBegin(EmptyStr, c.sessionId, FallbackTimeoutMs, "civilian"),
                       !.nreq = @ + 1]
        ELSE [c EXCEPT !.errorBody = errorBody, !.st = "done",
                       !.out = Thrown("Error", NotifyFailedMsg(c.status, errorBody))]

\* Variant of NAfterFallback with a plausible slip: the fallback's error is
\* dropped from the message.
NAfterFallback_DropsCause(c) ==
    IF c.st = "fallback" /\ c.fb.st = "done"
    THEN [c EXCEPT !.st = "done",
                   !.out = IF c.fb.out.kind = "ok"
                           THEN Returned("fallback")
                           ELSE Thrown("Error", FallbackFailedMsg(EmptyStr))]
    ELSE c

\* the try/catch around `await sendTranscript(...)`, once that call has settled
NAfterFallback(c) ==
    IF c.st = "fallback" /\ c.fb.st = "done"
    THEN [c EXCEPT !.st = "done",
                   !.out = IF c.fb.out.kind = "ok"
                           THEN Returned("fallback")
                           ELSE Thrown("Error", FallbackFailedMsg(c.fb.out.msg))]
    ELSE c

(***************************************************************************)
(* notifyCivilianCallStarted of the older transcriptService                *)
(* (unnamed/part_000): no fallback, and res.text() is not guarded          *)
(***************************************************************************)
LIdle == [st |-> "idle", sessionId |-> "", status |-> 0, errorBody |-> EmptyStr,
          out |-> Pending]

LBegin(sessionId) == [LIdle EXCEPT !.st = "fetching", !.sessionId = sessionId]

LOnFetchError(c) ==
    [c EXCEPT !.st = "done", !.out = Thrown("TypeError", NetworkMsg)]

LOnHeaders(c, status) ==
    IF Ok(status)
    THEN [c EXCEPT !.status = status, !.st = "done", !.out = Returned("res")]
    ELSE [c EXCEPT !.status = status, !.st = "text"]

LOnErrText(c, read) ==
    [c EXCEPT !.st = "done", !.errorBody = read.text,
              !.out = IF read.ok
                      THEN Thrown("Error", NotifyFailedMsg(c.status, read.text))
                      ELSE Thrown("TypeError", BodyReadMsg)]

(***************************************************************************)
(* Bounds and input sets                                                   *)
(***************************************************************************)
MaxNotify == 2          \* notifyCivilianCallStarted calls pending at once
MaxStart  == 2          \* startRecording handlers running at once
MaxOpen   == 2          \* Audio.Recording objects open at once

NotifyIds == 1..MaxNotify
Screens   == {"civilian", "police"}
NoId      == ""                       \* null: no identifier
DeviceIds == {"id-a", "id-b"}         \* what uuid.v4() can return
ServerIds == {"id-a", "inc-9"}        \* incident_id values the relay can answer with
Statuses  == {200, 201, 404, 422, 500}
ErrorReads == {ReadFailed, ReadText(EmptyStr), ReadText(<<"Not Found">>)}
SendReplies == {Unparseable} \cup {[k |-> "obj", incident_id |-> i] : i \in ServerIds}
Callers   == {"civilian", "police officer", "unknown"}

(***************************************************************************)
(* Initial state                                                           *)
(***************************************************************************)
Placeholder == <<"Tap", " 'Start Recording' to begin...">>
NoTask      == [pc |-> "idle"]

InitSvc ==
    /\ xcall = XIdle
    /\ scall = SIdle
    /\ ncalls = [n \in NotifyIds |-> NIdle]
    /\ lcall = LIdle

InitId ==
    /\ storage \in {NoId} \cup DeviceIds
    /\ initTask = [sc \in Screens |-> [pc |-> "idle", storedId |-> NoId]]
    /\ deviceId = [sc \in Screens |-> NoId]

InitScreen ==
    /\ screen \in Screens
    /\ platform \in {"native", "web"}
    /\ permission \in BOOLEAN
    /\ recording = 0
    /\ isRecording = FALSE
    /\ transcript = Placeholder
    /\ isLoading = FALSE
    /\ sendLoading = FALSE
    /\ sendError = JNull
    /\ sendSuccess = JNull
    /\ startTasks = [i \in 1..MaxStart |-> NoTask]
    /\ stopTask = NoTask
    /\ sendTask = NoTask
    /\ opened = {}

(***************************************************************************)
(* Steps of the service calls: what the network and the clock do to them.  *)
(* The clock step of a call (timeoutMs elapsing) is followed in the phases *)
(* given; it changes what the call does only while the fetch is pending.   *)
(***************************************************************************)
PendingPhases == {"fetching", "text", "json"}
FetchPhase    == {"fetching"}
XHeaders(statuses) ==
    /\ xcall.st = "fetching"
    /\ \E status \in statuses :
          xcall' = XOnHeaders(xcall, status)
    /\ UNCHANGED <<scall, ncalls, lcall, idVars, screenVars>>

XFetchError ==
    /\ xcall.st = "fetching"
    /\ xcall' = XOnFetchError(xcall)
    /\ UNCHANGED <<scall, ncalls, lcall, idVars, screenVars>>

XElapse(phases) ==
    /\ xcall.st \in phases
    /\ ~xcall.elapsed
    /\ xcall' = XOnElapse(xcall)
    /\ UNCHANGED <<scall, ncalls, lcall, idVars, screenVars>>

XErrText(reads) ==
    /\ xcall.st = "text"
    /\ \E read \in reads :
          xcall' = XOnErrText(xcall, read)
    /\ UNCHANGED <<scall, ncalls, lcall, idVars, screenVars>>

XJson(bodies) ==
    /\ xcall.st = "json"
    /\ \E body \in bodies :
          xcall' = XOnJson(xcall, body)
    /\ UNCHANGED <<scall, ncalls, lcall, idVars, screenVars>>

SHeaders(statuses) ==
    /\ scall.st = "fetching"
    /\ \E status \in statuses :
          scall' = SOnHeaders(scall, status)
    /\ UNCHANGED <<xcall, ncalls, lcall, idVars, screenVars>>

SFetchError ==
    /\ scall.st = "fetching"
    /\ scall' = SOnFetchError(scall)
    /\ UNCHANGED <<xcall, ncalls, lcall, idVars, screenVars>>

SElapse(phases) ==
    /\ scall.st \in phases
    /\ ~scall.elapsed
    /\ scall' = SOnElapse(scall)
    /\ UNCHANGED <<xcall, ncalls, lcall, idVars, screenVars>>

SErrText(reads) ==
    /\ scall.st = "text"
    /\ \E read \in reads :
          scall' = SOnErrText(scall, read)
    /\ UNCHANGED <<xcall, ncalls, lcall, idVars, screenVars>>

SJson(replies) ==
    /\ scall.st = "json"
    /\ \E resp \in replies :
          scall' = SOnJson(scall, resp)
    /\ UNCHANGED <<xcall, ncalls, lcall, idVars, screenVars>>

NFetchError(n) ==
    /\ ncalls[n].st = "fetching"
    /\ ncalls' = [ncalls EXCEPT ![n] = NOnFetchError(@)]
    /\ UNCHANGED <<xcall, scall, lcall, idVars, screenVars>>

NHeaders(n, statuses) ==
    /\ ncalls[n].st = "fetching"
    /\ \E status \in statuses :
          ncalls' = [ncalls EXCEPT ![n] = NOnHeaders(@, status)]
    /\ UNCHANGED <<xcall, scall, lcall, idVars, screenVars>>

NErrText(n, reads) ==
    /\ ncalls[n].st = "text"
    /\ \E read \in reads :
          ncalls' = [ncalls EXCEPT ![n] = NOnErrText(@, read)]
    /\ UNCHANGED <<xcall, scall, lcall, idVars, screenVars>>

\* the fallback sendTranscript call of notify call n
FbHeaders(n, statuses) ==
    /\ ncalls[n].st = "fallback" /\ ncalls[n].fb.st = "fetching"
    /\ \E status \in statuses :
          ncalls' = [ncalls EXCEPT ![n] = NAfterFallback([@ EXCEPT !.fb = SOnHeaders(@, status)])]
    /\ UNCHANGED <<xcall, scall, lcall, idVars, screenVars>>

FbFetchError(n) ==
    /\ ncalls[n].st = "fallback" /\ ncalls[n].fb.st = "fetching"
    /\ ncalls' = [ncalls EXCEPT ![n] = NAfterFallback([@ EXCEPT !.fb = SOnFetchError(@)])]
    /\ UNCHANGED <<xcall, scall, lcall, idVars, screenVars>>

FbElapse(n, phases) ==
    /\ ncalls[n].st = "fallback" /\ ncalls[n].fb.st \in phases
    /\ ~ncalls[n].fb.elapsed
    /\ ncalls' = [ncalls EXCEPT ![n] = NAfterFallback([@ EXCEPT !.fb = SOnElapse(@)])]
    /\ UNCHANGED <<xcall, scall, lcall, idVars, screenVars>>

FbErrText(n, reads) ==
    /\ ncalls[n].st = "fallback" /\ ncalls[n].fb.st = "text"
    /\ \E read \in reads :
          ncalls' = [ncalls EXCEPT ![n] = NAfterFallback([@ EXCEPT !.fb = SOnErrText(@, read)])]
    /\ UNCHANGED <<xcall, scall, lcall, idVars, screenVars>>

FbJson(n, replies) ==
    /\ ncalls[n].st = "fallback" /\ ncalls[n].fb.st = "json"
    /\ \E resp \in replies :
          ncalls' = [ncalls EXCEPT ![n] = NAfterFallback([@ EXCEPT !.fb = SOnJson(@, resp)])]
    /\ UNCHANGED <<xcall, scall, lcall, idVars, screenVars>>

LFetchError ==
    /\ lcall.st = "fetching"
    /\ lcall' = LOnFetchError(lcall)
    /\ UNCHANGED <<xcall, scall, ncalls, idVars, screenVars>>

LHeaders(statuses) ==
    /\ lcall.st = "fetching"
    /\ \E status \in statuses :
          lcall' = LOnHeaders(lcall, status)
    /\ UNCHANGED <<xcall, scall, ncalls, idVars, screenVars>>

LErrText(reads) ==
    /\ lcall.st = "text"
    /\ \E read \in reads :
          lcall' = LOnErrText(lcall, read)
    /\ UNCHANGED <<xcall, scall, ncalls, idVars, screenVars>>

(***************************************************************************)
(* The services called directly: one call, followed until it settles      *)
(***************************************************************************)
SvcTexts    == {EmptyStr, <<"test statement">>}
SvcTimeouts == {5000, 15000}

NoCallYet ==
    /\ xcall.st = "idle" /\ scall.st = "idle" /\ lcall.st = "idle"
    /\ \A n \in NotifyIds : ncalls[n].st = "idle"

CallTranscribe(configured) ==
    /\ NoCallYet
    /\ xcall' = XBegin(configured)
    /\ UNCHANGED <<scall, ncalls, lcall, idVars, screenVars>>

CallSend(text, sessionId, timeoutMs, caller) ==
    /\ NoCallYet
    /\ scall' = SBegin(text, sessionId, timeoutMs, caller)
    /\ UNCHANGED <<xcall, ncalls, lcall, idVars, screenVars>>

CallNotify(n, sessionId) ==
    /\ NoCallYet
    /\ ncalls' = [ncalls EXCEPT ![n] = NBegin(sessionId)]
    /\ UNCHANGED <<xcall, scall, lcall, idVars, screenVars>>

CallOlderNotify(sessionId) ==
    /\ NoCallYet
    /\ lcall' = LBegin(sessionId)
    /\ UNCHANGED <<xcall, scall, ncalls, idVars, screenVars>>

InitSvcOnly ==
    /\ InitSvc
    /\ storage = NoId
    /\ initTask = [sc \in Screens |-> [pc |-> "idle", storedId |-> NoId]]
    /\ deviceId = [sc \in Screens |-> NoId]
    /\ InitScreen /\ screen = "civilian" /\ platform = "native" /\ permission = TRUE

NextSvc ==
    \/ \E configured \in BOOLEAN : CallTranscribe(configured)
    \/ \E text \in SvcTexts, sid \in DeviceIds, ms \in SvcTimeouts, caller \in Callers :
          CallSend(text, sid, ms, caller)
    \/ \E n \in NotifyIds, sid \in DeviceIds : CallNotify(n, sid)
    \/ \E sid \in DeviceIds : CallOlderNotify(sid)
    \/ XHeaders(Statuses)
    \/ XFetchError
    \/ XElapse(PendingPhases)
    \/ XErrText(ErrorReads)
    \/ XJson(Bodies)
    \/ SHeaders(Statuses)
    \/ SFetchError
    \/ SElapse(PendingPhases)
    \/ SErrText(ErrorReads)
    \/ SJson(SendReplies)
    \/ \E n \in NotifyIds : NFetchError(n)
    \/ \E n \in NotifyIds : NHeaders(n, Statuses)
    \/ \E n \in NotifyIds : NErrText(n, ErrorReads)
    \/ \E n \in NotifyIds : FbHeaders(n, Statuses)
    \/ \E n \in NotifyIds : FbFetchError(n)
    \/ \E n \in NotifyIds : FbElapse(n, PendingPhases)
    \/ \E n \in NotifyIds : FbErrText(n, ErrorReads)
    \/ \E n \in NotifyIds : FbJson(n, SendReplies)
    \/ LFetchError
    \/ LHeaders(Statuses)
    \/ LErrText(ErrorReads)

SpecSvc == InitSvcOnly /\ [][NextSvc]_vars

(***************************************************************************)
(* Claims about the services (checked under SpecSvc)                       *)
(***************************************************************************)
Status404Token == <<ToString(404)>>

\* C1: once notifyCivilianCallStarted has read a 404 answer it has made exactly
\* one fallback call, sendTranscript("", sessionId, 5000, "civilian"), whose
\* request carries the same sessionId as incident key; and when that fallback
\* call returns a value the notification returns one too (no error).
C1_FallbackOn404 ==
    \A n \in NotifyIds :
        LET c == ncalls[n]
        IN  /\ c.nreq <= 1
            /\ (c.status = 404 /\ c.st \in {"fallback", "done"}) =>
                  /\ c.nreq = 1
                  /\ c.fb.st # "idle"
                  /\ c.fb.args = [transcript |-> EmptyStr, sessionId |-> c.sessionId,
                                  timeoutMs |-> 5000, caller |-> "civilian"]
                  /\ c.fb.req = [url |-> "/incident/update_transcript",
                                 incident_id |-> c.sessionId,
                                 transcript |-> EmptyStr, caller |-> "civilian"]
                  /\ (c.fb.st = "done" /\ c.fb.out.kind = "ok") =>
                        (c.st = "done" /\ c.out.kind = "ok")

C1_Witness ==
    \E n \in NotifyIds :
        /\ ncalls[n].status = 404 /\ ncalls[n].st = "done"
        /\ ncalls[n].fb.st = "done" /\ ncalls[n].fb.out.kind = "ok"
        /\ ncalls[n].out = Returned("fallback")

\* C2 as stated: after a 404 whose fallback call failed, the notification fails
\* with one error whose message contains the status and the body of the 404
\* response and the message of the fallback failure.
C2_MessageHasStatusBodyAndFallback ==
    \A n \in NotifyIds :
        LET c == ncalls[n]
        IN  (c.status = 404 /\ c.st = "done" /\ c.fb.st = "done" /\ c.fb.out.kind = "err") =>
               /\ c.out.kind = "err"
               /\ Contains(c.out.msg, Status404Token)
               /\ Contains(c.out.msg, c.errorBody)
               /\ Contains(c.out.msg, c.fb.out.msg)

\* C2 amended: after a 404 whose fallback call failed, the notification fails
\* with one error whose message names the status 404 and ends with the message
\* of the fallback failure (timeout, non-success status, network or body
\* error); the body of the 404 response is not part of the message.
C2_MessageHasStatusAndFallback ==
    \A n \in NotifyIds :
        LET c == ncalls[n]
        IN  (c.status = 404 /\ c.st = "done" /\ c.fb.st = "done" /\ c.fb.out.kind = "err") =>
               /\ c.out.kind = "err"
               /\ Contains(c.out.msg, Status404Token)
               /\ Len(c.out.msg) = 3 + Len(c.fb.out.msg)
               /\ SubSeq(c.out.msg, 4, Len(c.out.msg)) = c.fb.out.msg

C2_Witness ==
    \E n \in NotifyIds :
        /\ ncalls[n].status = 404 /\ ncalls[n].st = "done"
        /\ ncalls[n].errorBody = <<"Not Found">>
        /\ ncalls[n].fb.out = Thrown("Error", SendTimeoutMsg)
        /\ ncalls[n].out.kind = "err"

\* C3: for a non-success status other than 404 the notification fails with an
\* error that carries the status and the body read from the response, and no
\* request to update_transcript is made.  For the older service the body is
\* read without a guard, so the error carries status and body when the body
\* could be read.
NoUpdateTranscriptRequest ==
    /\ scall.st = "idle"
    /\ \A n \in NotifyIds : ncalls[n].fb.st = "idle" /\ ncalls[n].nreq = 0

C4_TimeoutBoundsTheCall ==
    /\ xcall.elapsed =>
          (xcall.st = "done" /\ xcall.out = Thrown("Error", TranscribeTimeoutMsg))
    /\ scall.elapsed =>
          (scall.st = "done" /\ scall.out = Thrown("Error", SendTimeoutMsg))
    /\ \A n \in NotifyIds :
          ncalls[n].fb.elapsed =>
             (ncalls[n].fb.st = "done" /\ ncalls[n].fb.out = Thrown("Error", SendTimeoutMsg))

\* What the code guarantees instead: a call whose fetch has not resolved when
\* the timeout elapses fails with the timeout error.
TimeoutBoundsTheFetch ==
    /\ (xcall.elapsed /\ xcall.status = 0) =>
          (xcall.st = "done" /\ xcall.out = Thrown("Error", TranscribeTimeoutMsg))
    /\ (scall.elapsed /\ scall.status = 0) =>
          (scall.st = "done" /\ scall.out = Thrown("Error", SendTimeoutMsg))

\* The rules of the extraction, read off the claim: which rule a parsed body
\* matches first, and the text that rule gives.
C5_ChannelPick(c) ==
    IF c.content.k = "str" /\ c.content.s # EmptyStr THEN c.content.s
    ELSE IF c.text.k = "str" /\ c.text.s # EmptyStr THEN c.text.s
    ELSE IF c.transcript.k = "str" THEN c.transcript.s
    ELSE EmptyStr
RECURSIVE C5_JoinFrom(_, _, _)
C5_JoinFrom(items, i, acc) ==
    IF i > Len(items) THEN acc
    ELSE LET t == C5_ChannelPick(items[i])
         IN  C5_JoinFrom(items, i + 1,
                IF t = EmptyStr THEN acc
                ELSE IF acc = EmptyStr THEN t
                ELSE acc \o <<" ">> \o t)
C5_ChannelsOfObjects(d) ==
    /\ d.k = "obj" /\ d.channels.k = "arr"
    /\ \A i \in 1..Len(d.channels.items) : d.channels.items[i].k = "obj"
C5_Rule(d) ==
    CASE d.k = "str" -> "a"
      [] d.k = "obj" /\ d.text.k = "str" -> "b"
      [] d.k = "obj" /\ d.text.k # "str" /\ d.content.k = "str" -> "c"
      [] d.k = "obj" /\ d.text.k # "str" /\ d.content.k # "str"
                     /\ d.transcript.k = "str" -> "d"
      [] d.k = "obj" /\ d.text.k # "str" /\ d.content.k # "str"
                     /\ d.transcript.k # "str" /\ C5_ChannelsOfObjects(d) -> "e"
      [] OTHER -> "none"
C5_RuleText(d) ==
    CASE C5_Rule(d) = "a" -> d.s
      [] C5_Rule(d) = "b" -> d.text.s
      [] C5_Rule(d) = "c" -> d.content.s
      [] C5_Rule(d) = "d" -> d.transcript.s
      [] C5_Rule(d) = "e" -> C5_JoinFrom(d.channels.items, 1, EmptyStr)
      [] OTHER -> EmptyStr

XSucceeded == xcall.st = "done" /\ Ok(xcall.status)

\* C5 as stated: on a success response transcribeAudio returns the text of the
\* first rule the body matches, in the order string body, text, content,
\* transcript, channels (the channel texts joined by one space).
C5_FirstMatchingRule ==
    (XSucceeded /\ C5_Rule(xcall.data) # "none") =>
        xcall.out = Returned(C5_RuleText(xcall.data))

\* C5 amended: the same, where the string-body rule needs a non-empty string
\* and the channels rule needs at least one channel with a non-empty content,
\* text or transcript (its result is those non-empty texts, joined in array
\* order by one space).
C5_RuleApplies(d) ==
    /\ C5_Rule(d) # "none"
    /\ C5_Rule(d) = "a" => d.s # EmptyStr
    /\ C5_Rule(d) = "e" => C5_JoinFrom(d.channels.items, 1, EmptyStr) # EmptyStr
C5_FirstApplicableRule ==
    (XSucceeded /\ C5_RuleApplies(xcall.data)) =>
        xcall.out = Returned(C5_RuleText(xcall.data))

C5_Witness ==
    /\ XSucceeded
    /\ C5_Rule(xcall.data) = "e"
    /\ Len(xcall.data.channels.items) = 2
    /\ xcall.out = Returned(<<"cc", " ", "ct">>)

\* C6 as stated: on a success response transcribeAudio always returns a string
\* and never throws, and when no rule matches the string contains the
\* serialized body.
C6_AlwaysReturnsText ==
    XSucceeded =>
        /\ xcall.out.kind = "ok"
        /\ C5_Rule(xcall.data) = "none" =>
              Contains(xcall.out.val, Stringify(xcall.data))

(***************************************************************************)
(* Device identity: the mount effect of each screen (initDeviceId)         *)
(*   pc: idle (not mounted), get (await AsyncStorage.getItem), set (await  *)
(*   AsyncStorage.setItem), done, failed                                   *)
(***************************************************************************)
InitIdFailedMsg == <<"Failed to initialize device ID">>

\* setSendError(...) of screen sc, as far as the followed screen shows it
SendErrorAfterInitFailure(sc) ==
    IF sc = screen THEN JStr(InitIdFailedMsg) ELSE sendError

\* useEffect(() => { initDeviceId() }, []): the call up to `await getItem`
MountScreen(sc) ==
    /\ initTask[sc].pc = "idle"
    /\ initTask' = [initTask EXCEPT ![sc].pc = "get"]
    /\ UNCHANGED <<storage, deviceId, svcVars, screenVars>>

\* getItem resolves with the stored value: a stored identifier is adopted, and
\* otherwise uuid.v4() makes one and setItem is awaited
GetItemResolves(sc, ids) ==
    /\ initTask[sc].pc = "get"
    /\ IF storage # NoId
       THEN /\ initTask' = [initTask EXCEPT ![sc] = [pc |-> "done", storedId |-> storage]]
            /\ deviceId' = [deviceId EXCEPT ![sc] = storage]
       ELSE /\ \E id \in ids :
                  initTask' = [initTask EXCEPT ![sc] = [pc |-> "set", storedId |-> id]]
            /\ UNCHANGED deviceId
    /\ UNCHANGED <<storage, svcVars, screenVars>>

\* setItem resolves: the value is stored, then setDeviceId(storedId)
SetItemResolves(sc) ==
    /\ initTask[sc].pc = "set"
    /\ storage' = initTask[sc].storedId
    /\ deviceId' = [deviceId EXCEPT ![sc] = initTask[sc].storedId]
    /\ initTask' = [initTask EXCEPT ![sc].pc = "done"]
    /\ UNCHANGED <<svcVars, screenVars>>

\* getItem or setItem rejects: catch, setSendError('Failed to initialize device ID')
StorageRejects(sc) ==
    /\ initTask[sc].pc \in {"get", "set"}
    /\ initTask' = [initTask EXCEPT ![sc].pc = "failed"]
    /\ sendError' = SendErrorAfterInitFailure(sc)
    /\ UNCHANGED <<storage, deviceId, svcVars, screen, platform, permission, recording,
                   isRecording, transcript, isLoading, sendLoading, sendSuccess,
                   startTasks, stopTask, sendTask, opened>>

NextIdOf(scs, ids) ==
    \/ \E sc \in scs : MountScreen(sc)
    \/ \E sc \in scs : GetItemResolves(sc, ids)
    \/ \E sc \in scs : SetItemResolves(sc)
    \/ \E sc \in scs : StorageRejects(sc)

NextId == NextIdOf(Screens, DeviceIds)

InitIdOnly == InitSvc /\ InitId /\ InitScreen

SpecId == InitIdOnly /\ [][NextId]_vars

\* C8 as stated: the executions of the get-or-create routine of one
\* installation, also when they interleave at their storage reads and writes,
\* obtain the same identifier, and it is the one persisted under the key.
C8_OneIdentity ==
    \A sc \in Screens :
        deviceId[sc] # NoId =>
            /\ deviceId[sc] = storage
            /\ \A other \in Screens : deviceId[other] # NoId => deviceId[other] = deviceId[sc]

\* What holds without the interleaving: an execution that runs from its read to
\* its write while no other execution is between its read and its write adopts
\* the persisted identifier.
C8_StoredIdentityIsAdopted ==
    [][\A sc \in Screens :
          (storage # NoId /\ initTask[sc].pc = "get" /\ initTask'[sc].pc = "done")
             => deviceId'[sc] = storage]_vars

(***************************************************************************)
(* The screens (app/(tabs)/index.tsx: civilian, police.tsx: police).       *)
(* A handler runs from the press, or from the event that resumes it, to    *)
(* its next await; it reads the React state of the render it was created   *)
(* in, which is the state at the press.                                    *)
(***************************************************************************)
SendTimeoutMs == 15000

RecordingText   == <<"Recording", "...">>
StoppingText    == <<"Stopping recording and preparing for transcription...">>
UploadingText   == <<"Uploading audio to ElevenLabs...">>
NoTranscriptMsg == <<"No transcript to send">>
NoDeviceMsg     == <<"Device ID not initialized">>
PermissionMsg   == <<"Microphone permission is required!">>
NoMediaMsg      == <<"No media devices">>
NoUriMsg        == <<"Could not retrieve recorded audio URI.">>
StopFailedMsg   == <<"Cannot unload a Recording that has not been prepared.">>
AudioModeMsg    == <<"Audio mode could not be set">>
MicNotFoundText == <<"Microphone not found or not accessible. Please ensure your device has a working microphone and the app has permission to use it.">>

\* the catch block of startRecording: the text put into the transcript
StartErrorText(msg) ==
    <<"Error starting recording: ">> \o
    (IF platform # "web" /\ Contains(msg, NoMediaMsg) THEN MicNotFoundText ELSE msg)

\* the catch block of stopRecording
TranscriptionFailedText(msg) == <<"Transcription failed: ">> \o msg

\* the catch block of uploadAndTranscribe
FailedToTranscribeMsg(msg) == <<"Failed to transcribe audio: ">> \o msg

\* Variant of SentText with a plausible slip: the device's own identifier shown
\* in place of the incident_id of the answer.
SentText_OwnId(incidentId) ==
    <<"Transcript sent successfully to incident ", deviceId[screen]>>

\* `Transcript sent successfully to incident ${resp.incident_id}`
SentText(incidentId) == <<"Transcript sent successfully to incident ", incidentId>>

\* the caller tag each screen passes to sendTranscript
CallerOf(sc) == IF sc = "civilian" THEN "civilian" ELSE "police officer"

\* `!transcript || transcript.startsWith('Recording') || transcript.startsWith('Tap')`
IsPlaceholderText(t) ==
    t = EmptyStr \/ StartsWith(t, "Recording") \/ StartsWith(t, "Tap")

\* disabled= of the three buttons
StartEnabled == ~isRecording /\ ~isLoading
StopEnabled  == isRecording /\ ~isLoading
SendEnabled  == ~sendLoading /\ ~isLoading

\* a Recording object not in use
FreshRecording == CHOOSE h \in 1..(MaxOpen + 1) : h \notin opened /\ h # recording

(* ---- startRecording ---- *)

\* `if (deviceId) notifyCivilianCallStarted(deviceId).catch(...)` (civilian
\* screen only; police.tsx has no such statement).  The call is followed in the
\* first free slot of `slots`; a call made while every slot holds a call is
\* made but not followed.
FireNotify(dev, slots) ==
    IF screen = "civilian" /\ dev # NoId /\ (\E n \in slots : ncalls[n].st = "idle")
    THEN LET n == CHOOSE m \in slots :
                     /\ ncalls[m].st = "idle"
                     /\ \A k \in slots : k < m => ncalls[k].st # "idle"
         IN  ncalls' = [ncalls EXCEPT ![n] = NBegin(dev)]
    ELSE UNCHANGED ncalls

\* the part of startRecording after the permission check, up to the next await:
\* on mobile setAudioModeAsync is awaited first; on web the notification is
\* fired and createAsync awaited at once
AfterPermission(i, dev, slots) ==
    IF platform # "web"
    THEN /\ startTasks' = [startTasks EXCEPT ![i] = [pc |-> "mode", dev |-> dev]]
         /\ UNCHANGED ncalls
    ELSE /\ startTasks' = [startTasks EXCEPT ![i] = [pc |-> "create", dev |-> dev]]
         /\ FireNotify(dev, slots)

\* catch (err) of startRecording
StartFails(i, msg) ==
    /\ transcript' = StartErrorText(msg)
    /\ isRecording' = FALSE
    /\ startTasks' = [startTasks EXCEPT ![i] = NoTask]

PressStart(i, slots) ==
    /\ StartEnabled
    /\ startTasks[i].pc = "idle"
    /\ \A j \in 1..MaxStart : j < i => startTasks[j].pc # "idle"
    /\ IF ~permission
       THEN /\ startTasks' = [startTasks EXCEPT ![i] = [pc |-> "perm",
                                                         dev |-> deviceId[screen]]]
            /\ UNCHANGED ncalls
       ELSE AfterPermission(i, deviceId[screen], slots)
    /\ UNCHANGED <<xcall, scall, lcall, idVars, screen, platform, permission, recording,
                   isRecording, transcript, isLoading, sendLoading, sendError,
                   sendSuccess, stopTask, sendTask, opened>>

\* requestPermission() resolves
PermissionAnswered(i, granted, slots) ==
    /\ startTasks[i].pc = "perm"
    /\ IF granted
       THEN /\ permission' = TRUE
            /\ AfterPermission(i, startTasks[i].dev, slots)
            /\ UNCHANGED <<transcript, isRecording>>
       ELSE /\ StartFails(i, PermissionMsg)
            /\ UNCHANGED <<permission, ncalls>>
    /\ UNCHANGED <<xcall, scall, lcall, idVars, screen, platform, recording,
                   isLoading, sendLoading, sendError, sendSuccess, stopTask, sendTask,
                   opened>>

\* setAudioModeAsync resolves: the notification is fired (civilian screen, with
\* the deviceId of the press) and createAsync awaited
AudioModeSet(i, slots) ==
    /\ startTasks[i].pc = "mode"
    /\ startTasks' = [startTasks EXCEPT ![i].pc = "create"]
    /\ FireNotify(startTasks[i].dev, slots)
    /\ UNCHANGED <<xcall, scall, lcall, idVars, screen, platform, permission, recording,
                   isRecording, transcript, isLoading, sendLoading, sendError,
                   sendSuccess, stopTask, sendTask, opened>>

\* setAudioModeAsync rejects
AudioModeRejects(i) ==
    /\ startTasks[i].pc = "mode"
    /\ StartFails(i, AudioModeMsg)
    /\ UNCHANGED <<svcVars, idVars, screen, platform, permission, recording,
                   isLoading, sendLoading, sendError, sendSuccess, stopTask, sendTask,
                   opened>>

\* Audio.Recording.createAsync resolves with a new Recording
RecordingCreated(i) ==
    /\ startTasks[i].pc = "create"
    /\ Cardinality(opened) < MaxOpen
    /\ opened' = opened \cup {FreshRecording}
    /\ recording' = FreshRecording
    /\ isRecording' = TRUE
    /\ transcript' = RecordingText
    /\ startTasks' = [startTasks EXCEPT ![i] = NoTask]
    /\ UNCHANGED <<svcVars, idVars, screen, platform, permission, isLoading,
                   sendLoading, sendError, sendSuccess, stopTask, sendTask>>

\* Audio.Recording.createAsync rejects
CreateRejects(i, msg) ==
    /\ startTasks[i].pc = "create"
    /\ StartFails(i, msg)
    /\ UNCHANGED <<svcVars, idVars, screen, platform, permission, recording,
                   isLoading, sendLoading, sendError, sendSuccess, stopTask, sendTask,
                   opened>>

\* Variant of NotifyLogged with a plausible slip: the catch callback puts the
\* failure on the send error banner.
NotifyLogged_ShowsError(n) ==
    /\ ncalls[n].st = "done"
    /\ ncalls' = [ncalls EXCEPT ![n] = NIdle]
    /\ sendError' = IF ncalls[n].out.kind = "err" THEN JStr(ncalls[n].out.msg) ELSE sendError
    /\ UNCHANGED <<xcall, scall, lcall, idVars, screen, platform, permission, recording,
                   isRecording, transcript, isLoading, sendLoading, sendSuccess,
                   startTasks, stopTask, sendTask, opened>>

\* notifyCivilianCallStarted(deviceId).catch(console.error): the outcome is logged
NotifyLogged(n) ==
    /\ ncalls[n].st = "done"
    /\ ncalls' = [ncalls EXCEPT ![n] = NIdle]
    /\ UNCHANGED <<xcall, scall, lcall, idVars, screenVars>>

(* ---- stopRecording ---- *)

\* the press: `if (!recording) return;`, else the state updates up to
\* `await recording.stopAndUnloadAsync()`
PressStop ==
    /\ StopEnabled
    /\ stopTask.pc = "idle"
    /\ recording # 0
    /\ isRecording' = FALSE
    /\ isLoading' = TRUE
    /\ transcript' = StoppingText
    /\ stopTask' = [pc |-> "stopping", rec |-> recording]
    /\ UNCHANGED <<svcVars, idVars, screen, platform, permission, recording,
                   sendLoading, sendError, sendSuccess, startTasks, sendTask, opened>>

\* stopAndUnloadAsync resolves; getURI(); setRecording(null); with a uri the
\* upload starts (transcribeAudio is called with the default timeout), without
\* one the handler throws and ends in its catch and finally
StopResolved(hasUri) ==
    /\ stopTask.pc = "stopping"
    /\ opened' = opened \ {stopTask.rec}
    /\ recording' = 0
    /\ IF hasUri
       THEN /\ transcript' = UploadingText
            /\ xcall' = XBegin(TRUE)
            /\ stopTask' = [stopTask EXCEPT !.pc = "transcribing"]
            /\ UNCHANGED isLoading
       ELSE /\ transcript' = TranscriptionFailedText(NoUriMsg)
            /\ isLoading' = FALSE
            /\ stopTask' = NoTask
            /\ UNCHANGED xcall
    /\ UNCHANGED <<scall, ncalls, lcall, idVars, screen, platform, permission,
                   isRecording, sendLoading, sendError, sendSuccess, startTasks,
                   sendTask>>

\* stopAndUnloadAsync rejects: catch and finally; the Recording may or may not
\* have been released
StopRejects(released) ==
    /\ stopTask.pc = "stopping"
    /\ opened' = IF released THEN opened \ {stopTask.rec} ELSE opened
    /\ transcript' = TranscriptionFailedText(StopFailedMsg)
    /\ isLoading' = FALSE
    /\ stopTask' = NoTask
    /\ UNCHANGED <<svcVars, idVars, screen, platform, permission, recording,
                   isRecording, sendLoading, sendError, sendSuccess, startTasks,
                   sendTask>>

\* transcribeAudio has settled: uploadAndTranscribe returns the text or wraps
\* the error; stopRecording shows the text and clears the send banners, or
\* shows the error as the transcript; finally setIsLoading(false)
TranscribeSettled ==
    /\ stopTask.pc = "transcribing"
    /\ xcall.st = "done"
    /\ IF xcall.out.kind = "ok"
       THEN /\ transcript' = xcall.out.val
            /\ sendError' = JNull
            /\ sendSuccess' = JNull
       ELSE /\ transcript' = TranscriptionFailedText(FailedToTranscribeMsg(xcall.out.msg))
            /\ UNCHANGED <<sendError, sendSuccess>>
    /\ isLoading' = FALSE
    /\ stopTask' = NoTask
    /\ xcall' = XIdle
    /\ UNCHANGED <<scall, ncalls, lcall, idVars, screen, platform, permission,
                   recording, isRecording, sendLoading, startTasks, sendTask, opened>>

(* ---- handleSend ---- *)

\* Variant of HandleSendRequest with a plausible slip: the caller tag left to
\* sendTranscript's default.
HandleSendRequest_DefaultCaller(text, id, sc) == SBegin(text, id, SendTimeoutMs, "unknown")

\* `sendTranscript(transcript, deviceId, 15000, 'civilian' | 'police officer')`
HandleSendRequest(text, id, sc) == SBegin(text, id, SendTimeoutMs, CallerOf(sc))

\* the press: the two checks, then the state updates up to `await sendTranscript`
PressSend ==
    /\ SendEnabled
    /\ sendTask.pc = "idle"
    /\ IF IsPlaceholderText(transcript)
       THEN /\ sendError' = JStr(NoTranscriptMsg)
            /\ UNCHANGED <<sendLoading, sendSuccess, scall, sendTask>>
       ELSE IF deviceId[screen] = NoId
       THEN /\ sendError' = JStr(NoDeviceMsg)
            /\ UNCHANGED <<sendLoading, sendSuccess, scall, sendTask>>
       ELSE /\ sendLoading' = TRUE
            /\ sendError' = JNull
            /\ sendSuccess' = JNull
            /\ scall' = HandleSendRequest(transcript, deviceId[screen], screen)
            /\ sendTask' = [pc |-> "sending"]
    /\ UNCHANGED <<xcall, ncalls, lcall, idVars, screen, platform, permission,
                   recording, isRecording, transcript, isLoading, startTasks, stopTask,
                   opened>>

\* Variant of SendSettled with a plausible slip: setSendLoading(false) at the
\* end of the try block, not in a finally, so that a failure leaves it set.
SendSettled_NoFinally ==
    /\ sendTask.pc = "sending"
    /\ scall.st = "done"
    /\ IF scall.out.kind = "ok"
       THEN /\ sendSuccess' = JStr(SentText(scall.out.val.incident_id))
            /\ sendLoading' = FALSE
            /\ UNCHANGED sendError
       ELSE /\ sendError' = JStr(scall.out.msg)
            /\ UNCHANGED <<sendSuccess, sendLoading>>
    /\ sendTask' = NoTask
    /\ scall' = SIdle
    /\ UNCHANGED <<xcall, ncalls, lcall, idVars, screen, platform, permission,
                   recording, isRecording, transcript, isLoading, startTasks, stopTask,
                   opened>>

\* sendTranscript has settled: the success banner with the incident_id of the
\* answer, or the error banner; finally setSendLoading(false)
SendSettled ==
    /\ sendTask.pc = "sending"
    /\ scall.st = "done"
    /\ IF scall.out.kind = "ok"
       THEN /\ sendSuccess' = JStr(SentText(scall.out.val.incident_id))
            /\ UNCHANGED sendError
       ELSE /\ sendError' = JStr(scall.out.msg)
            /\ UNCHANGED sendSuccess
    /\ sendLoading' = FALSE
    /\ sendTask' = NoTask
    /\ scall' = SIdle
    /\ UNCHANGED <<xcall, ncalls, lcall, idVars, screen, platform, permission,
                   recording, isRecording, transcript, isLoading, startTasks, stopTask,
                   opened>>

(***************************************************************************)
(* The app with one tab opened: that screen's identity effect and its       *)
(* workflow, and the network and clock acting on its calls.  The other tab *)
(* is mounted when it is first opened; what it can do to this screen is to  *)
(* have stored an identifier, which the initial value of `storage` covers. *)
(***************************************************************************)
ScreenStatuses == {200, 500}
NotifyStatuses == {200, 404, 500}
ScreenReads    == {ReadText(<<"Not Found">>)}
ScreenReplies  == {Unparseable, [k |-> "obj", incident_id |-> "inc-9"]}
ScreenBodies   ==
    {JStr(<<"test statement">>), JStr(<<"Tap", " water is leaking">>),
     [k |-> "obj", text |-> JStr(EmptyStr), content |-> Absent, transcript |-> Absent,
      channels |-> Absent]}
CreateErrors   == {NoMediaMsg}
CreatedIds     == {"id-b"}            \* what uuid.v4() returns in the app

Init == InitSvc /\ InitId /\ InitScreen /\ storage \in {NoId, "id-a"}

NextNetwork(slots) ==
    \/ XHeaders(ScreenStatuses)
    \/ XFetchError
    \/ XElapse(FetchPhase)
    \/ XErrText(ScreenReads)
    \/ XJson(ScreenBodies)
    \/ SHeaders(ScreenStatuses)
    \/ SFetchError
    \/ SElapse(FetchPhase)
    \/ SErrText(ScreenReads)
    \/ SJson(ScreenReplies)
    \/ \E n \in slots : NFetchError(n)
    \/ \E n \in slots : NHeaders(n, NotifyStatuses)
    \/ \E n \in slots : NErrText(n, ScreenReads)
    \/ \E n \in slots : FbHeaders(n, ScreenStatuses)
    \/ \E n \in slots : FbFetchError(n)
    \/ \E n \in slots : FbElapse(n, FetchPhase)
    \/ \E n \in slots : FbErrText(n, ScreenReads)
    \/ \E n \in slots : FbJson(n, ScreenReplies)
    \/ \E n \in slots : NotifyLogged(n)

NextScreen(starters, slots) ==
    \/ \E i \in starters : PressStart(i, slots)
    \/ \E i \in starters, granted \in BOOLEAN : PermissionAnswered(i, granted, slots)
    \/ \E i \in starters : AudioModeSet(i, slots)
    \/ \E i \in starters : AudioModeRejects(i)
    \/ \E i \in starters : RecordingCreated(i)
    \/ \E i \in starters, msg \in CreateErrors : CreateRejects(i, msg)
    \/ PressStop
    \/ \E hasUri \in BOOLEAN : StopResolved(hasUri)
    \/ \E released \in BOOLEAN : StopRejects(released)
    \/ TranscribeSettled
    \/ PressSend
    \/ SendSettled

Next ==
    \/ NextIdOf({screen}, CreatedIds)
    \/ NextNetwork(NotifyIds)
    \/ NextScreen(1..MaxStart, NotifyIds)

Spec == Init /\ [][Next]_vars

\* The same app used by someone who lets a start action finish before the next
\* one, with the first call-started notification followed.
NextOneAtATime ==
    \/ NextIdOf({screen}, CreatedIds)
    \/ NextNetwork({1})
    \/ NextScreen({1}, {1})

SpecOneAtATime == Init /\ [][NextOneAtATime]_vars

(***************************************************************************)
(* Claims about the send action (SpecOneAtATime)                           *)
(***************************************************************************)

\* the step of handleSend that starts a sendTranscript call
SendAccepted == sendTask.pc = "idle" /\ sendTask'.pc = "sending"

\* the step of handleSend that refuses: one of its two messages is put up
SendRejected ==
    /\ sendTask.pc = "idle"
    /\ sendTask'.pc = "idle"
    /\ sendError' # sendError
    /\ sendError' \in {JStr(NoTranscriptMsg), JStr(NoDeviceMsg)}

\* a sendTranscript call whose request went out carries its three arguments
CarriesItsArguments(c) ==
    c.st # "idle" =>
        /\ c.req.url = "/incident/update_transcript"
        /\ c.req.incident_id = c.args.sessionId
        /\ c.req.transcript = c.args.transcript
        /\ c.req.caller = c.args.caller

\* C7: every update_transcript request made by sendTranscript carries
\* incident_id equal to the sessionId it was given, transcript equal to the
\* given text and caller equal to the given role (the screen's call and the
\* notification's fallback call alike); and the request of a send action
\* carries the screen's device identifier, the transcript displayed at the
\* press, and "civilian" on the civilian screen, "police officer" on the police
\* screen.
C7_RequestCarriesScreenState ==
    /\ [](CarriesItsArguments(scall) /\ \A n \in NotifyIds : CarriesItsArguments(ncalls[n].fb))
    /\ [][SendAccepted =>
            /\ scall'.st = "fetching"
            /\ scall'.req.incident_id = deviceId[screen]
            /\ scall'.req.transcript = transcript
            /\ scall'.req.caller =
                  (IF screen = "civilian" THEN "civilian" ELSE "police officer")]_vars

\* a send on the police screen is in flight: the request carries the identifier
\* the screen generated, the displayed transcript and the police role
C7_Witness ==
    /\ screen = "police"
    /\ sendTask.pc = "sending"
    /\ scall.st = "fetching"
    /\ scall.req.caller = "police officer"
    /\ scall.req.transcript = <<"test statement">>
    /\ scall.req.incident_id = deviceId["police"]
    /\ deviceId["police"] = "id-b"

\* the conditions under which C10 says a send is rejected
C10_ShouldReject ==
    \/ transcript = EmptyStr
    \/ transcript = Placeholder
    \/ StartsWith(transcript, "Recording")
    \/ deviceId[screen] = NoId

\* C10: a send action is rejected exactly when the displayed text is empty,
\* equals the initial placeholder or begins with the recording marker, or the
\* device identity is unresolved; a rejected send puts up an error message,
\* makes no request and does not enter Sending; every other text with a
\* resolved identity is accepted.
C10_RejectedExactlyWhen ==
    [][/\ SendAccepted => ~C10_ShouldReject
       /\ SendRejected => /\ C10_ShouldReject
                          /\ scall' = scall
                          /\ ncalls' = ncalls
                          /\ sendLoading' = FALSE]_vars

\* What the code does hold to: the refusal follows its own test, which takes
\* every text beginning with "Tap" for the placeholder.
C10_RejectedByTheCodeTest ==
    [][/\ SendAccepted => ~(IsPlaceholderText(transcript) \/ deviceId[screen] = NoId)
       /\ SendRejected => /\ IsPlaceholderText(transcript) \/ deviceId[screen] = NoId
                          /\ scall' = scall
                          /\ ncalls' = ncalls
                          /\ sendLoading' = FALSE]_vars

(***************************************************************************)
(* The civilian flow: identity resolved, start once, stop, transcription   *)
(* succeeds, send once, relay answers success.  The steps of the flow are  *)
(* taken when they can be (weak fairness); the call-started notification   *)
(* and its fallback may settle in any way, at any time, or never.          *)
(***************************************************************************)
FlowText        == <<"test statement">>
FlowIncidentIds == {"inc-9", "id-a"}
FlowReplies     == {[k |-> "obj", incident_id |-> i] : i \in FlowIncidentIds}

InitFlow == Init /\ screen = "civilian"

FlowIdentity ==
    \/ MountScreen("civilian")
    \/ GetItemResolves("civilian", CreatedIds)
    \/ SetItemResolves("civilian")

FlowStart ==
    /\ deviceId["civilian"] # NoId
    /\ transcript = Placeholder
    /\ PressStart(1, {1})

FlowRecord ==
    \/ PermissionAnswered(1, TRUE, {1})
    \/ AudioModeSet(1, {1})
    \/ RecordingCreated(1)

FlowStop ==
    \/ PressStop
    \/ StopResolved(TRUE)

FlowTranscribe ==
    \/ XHeaders({200})
    \/ XJson({JStr(FlowText)})
    \/ TranscribeSettled

FlowSend ==
    /\ transcript = FlowText
    /\ sendSuccess = JNull
    /\ PressSend

FlowRelay ==
    \/ SHeaders({200})
    \/ SJson(FlowReplies)
    \/ SendSettled

FlowNotify ==
    \/ NFetchError(1)
    \/ NHeaders(1, NotifyStatuses)
    \/ NErrText(1, ScreenReads)
    \/ FbHeaders(1, ScreenStatuses)
    \/ FbFetchError(1)
    \/ FbElapse(1, PendingPhases)
    \/ FbErrText(1, ScreenReads)
    \/ FbJson(1, ScreenReplies)
    \/ NotifyLogged(1)

NextFlow ==
    \/ FlowIdentity
    \/ FlowStart
    \/ FlowRecord
    \/ FlowStop
    \/ FlowTranscribe
    \/ FlowSend
    \/ FlowRelay
    \/ FlowNotify

SpecFlow ==
    /\ InitFlow
    /\ [][NextFlow]_vars
    /\ WF_vars(FlowIdentity)
    /\ WF_vars(FlowStart)
    /\ WF_vars(FlowRecord)
    /\ WF_vars(FlowStop)
    /\ WF_vars(FlowTranscribe)
    /\ WF_vars(FlowSend)
    /\ WF_vars(FlowRelay)

\* Sent: no loading flag, no error banner, the success message of an incident
Sent ==
    /\ ~sendLoading
    /\ ~isLoading
    /\ sendError = JNull
    /\ \E i \in FlowIncidentIds : sendSuccess = JStr(SentText(i))

\* C9: in the civilian flow, whatever the notification does, the screen
\* reaches Sent, and the success message it shows names the incident_id of the
\* relay's answer.
C9_FlowReachesSent ==
    /\ <>Sent
    /\ [][(sendTask.pc = "sending" /\ sendTask'.pc = "idle" /\ scall.out.kind = "ok")
            => sendSuccess' = JStr(<<"Transcript sent successfully to incident ",
                                     scall.out.val.incident_id>>)]_vars

\* Sent is reached while the notification has failed together with its
\* fallback and that failure is still to be logged
C9_Witness ==
    /\ Sent
    /\ sendSuccess = JStr(<<"Transcript sent successfully to incident ", "inc-9">>)
    /\ ncalls[1].st = "done"
    /\ ncalls[1].out.kind = "err"
    /\ ncalls[1].status = 404
    /\ ncalls[1].nreq = 1

(***************************************************************************)
(* Claims about a failed send (SpecOneAtATime)                             *)
(***************************************************************************)

\* the step of handleSend that handles a failure of its sendTranscript call
SendFailedStep ==
    /\ sendTask.pc = "sending"
    /\ sendTask'.pc = "idle"
    /\ scall.out.kind = "err"

\* a press of the send button now would start a sendTranscript call
SendWouldBeAccepted ==
    /\ SendEnabled
    /\ sendTask.pc = "idle"
    /\ ~IsPlaceholderText(transcript)
    /\ deviceId[screen] # NoId

\* what the failure step does to the banners, the transcript and the flag
FailureShown ==
    /\ sendError' = JStr(scall.out.msg)
    /\ scall.out.msg # EmptyStr
    /\ sendSuccess' = JNull
    /\ transcript' = transcript
    /\ sendLoading' = FALSE

\* C11 as stated: every failure of the send's relay call shows an error, shows
\* no success message, leaves the transcript as it is and clears the sending
\* flag, and after it a further send action is accepted.
C11_FailureReturnsToReady ==
    [][SendFailedStep => FailureShown /\ SendWouldBeAccepted']_vars

\* C11 amended: the same, with the retry accepted when the screen still shows
\* the text that was sent and is not loading; a recording started or stopped
\* while the send was in flight may have replaced the text or set the loading
\* flag.
C11_FailureShownAndRetryWhenUntouched ==
    [][SendFailedStep =>
          /\ FailureShown
          /\ (transcript = scall.args.transcript /\ ~isLoading) => SendWouldBeAccepted']_vars

\* a send has timed out: its message is up, the flag is cleared, the transcript
\* that was sent is still shown and can be sent again
C11_Witness ==
    /\ sendError = JStr(SendTimeoutMsg)
    /\ sendSuccess = JNull
    /\ ~sendLoading
    /\ transcript = <<"test statement">>
    /\ SendWouldBeAccepted

(***************************************************************************)
(* Start and stop actions alone, with as many start handlers running at    *)
(* once as the start button lets through.  The device identity is not yet  *)
(* resolved, so that `if (deviceId)` skips the notification.               *)
(***************************************************************************)
NextStartStop ==
    \/ \E i \in 1..MaxStart : PressStart(i, {})
    \/ \E i \in 1..MaxStart, granted \in BOOLEAN : PermissionAnswered(i, granted, {})
    \/ \E i \in 1..MaxStart : AudioModeSet(i, {})
    \/ \E i \in 1..MaxStart : AudioModeRejects(i)
    \/ \E i \in 1..MaxStart : RecordingCreated(i)
    \/ \E i \in 1..MaxStart, msg \in CreateErrors : CreateRejects(i, msg)
    \/ PressStop
    \/ \E hasUri \in BOOLEAN : StopResolved(hasUri)
    \/ \E released \in BOOLEAN : StopRejects(released)
    \/ XHeaders(ScreenStatuses)
    \/ XFetchError
    \/ XElapse(FetchPhase)
    \/ XErrText(ScreenReads)
    \/ XJson(ScreenBodies)
    \/ TranscribeSettled

SpecStartStop == Init /\ [][NextStartStop]_vars

\* C12: in every reachable state at most one recording is open (created and
\* not yet stopped), also when a second start action comes while an earlier
\* one is still awaiting permission or the creation of its recording.
C12_AtMostOneOpenRecording == Cardinality(opened) <= 1

(***************************************************************************)
(* Claims about the requests in flight (SpecOneAtATime)                    *)
(***************************************************************************)

\* a sendTranscript call whose request is out and whose answer is not complete
RequestInFlight(c) == c.st \in PendingPhases

\* the update_transcript requests of the screen in flight: that of the send
\* action and those of the notifications' fallback calls
UpdateTranscriptInFlight ==
    (IF RequestInFlight(scall) THEN 1 ELSE 0)
    + Cardinality({n \in NotifyIds : RequestInFlight(ncalls[n].fb)})

\* C13: at most one request to the update_transcript endpoint is in flight at
\* any time: the request of a send action overlaps neither another send
\* action's request nor the fallback request of the call-started notification.
C13_OneUpdateTranscriptInFlight == UpdateTranscriptInFlight <= 1

(***************************************************************************)
(* Claims about the notification and the visible flow (SpecOneAtATime)     *)
(***************************************************************************)

\* what the screen shows and what its buttons depend on
Visible ==
    <<transcript, recording, isRecording, isLoading, sendLoading, sendError, sendSuccess>>

\* C14: the call-started notification neither blocks nor alters the visible
\* flow.  A step in which a notification is fired or moves on (answer, error
\* body, fallback, failure, logging) changes nothing the screen shows; a step
\* of the notification alone changes nothing but the notification; and a start
\* handler that has fired it can have its recording created whatever state the
\* notification is in.
C14_NotificationDoesNotInterfere ==
    /\ [][ncalls' # ncalls => UNCHANGED Visible]_vars
    /\ [][(ncalls' # ncalls /\ startTasks' = startTasks)
             => UNCHANGED <<xcall, scall, lcall, idVars, screenVars>>]_vars
    /\ [](\A i \in 1..MaxStart :
             (startTasks[i].pc = "create" /\ Cardinality(opened) < MaxOpen)
                => ENABLED RecordingCreated(i))

\* the recording has started while the notification has had no answer at all
C14_Witness ==
    /\ screen = "civilian"
    /\ isRecording
    /\ transcript = RecordingText
    /\ ncalls[1].st = "fetching"
    /\ ncalls[1].sessionId = deviceId["civilian"]

(***************************************************************************)
(* Claims about the banners and the submitted text (SpecOneAtATime)        *)
(***************************************************************************)

\* C15: in every reachable state the error banner and the success banner are
\* not both shown: sendError and sendSuccess are never both non-null.
C15_BannersExclusive == ~(sendError # JNull /\ sendSuccess # JNull)


\* a text the transcription step of a stop action puts up: a transcribeAudio
\* result, or the error text of the stop handler's catch block
FromTranscription(t) ==
    \/ \E body \in ScreenBodies : ExtractText(ParseBody(body)) = Returned(t)
    \/ StartsWith(t, "Transcription failed: ")

\* a text the screen writes into the transcript field outside that step
WrittenByTheScreen(t) ==
    \/ t = Placeholder
    \/ t = RecordingText
    \/ t = StoppingText
    \/ t = UploadingText
    \/ StartsWith(t, "Error starting recording: ")

\* C16: every text a send action submits to the relay was produced by the
\* transcription step of a stop action; no status or error text the screen
\* writes outside that step (placeholder, 'Recording...', 'Stopping ...',
\* 'Uploading ...', 'Error starting recording: ...') is ever submitted.
C16_OnlyTranscriptionTextsAreSent ==
    [][SendAccepted =>
          /\ FromTranscription(scall'.req.transcript)
          /\ ~WrittenByTheScreen(scall'.req.transcript)]_vars

\* What the send test and the disabled button do keep out: the placeholder and
\* the three progress texts.
C16_ProgressTextsAreNotSent ==
    [][SendAccepted =>
          scall'.req.transcript \notin {Placeholder, RecordingText, StoppingText,
                                        UploadingText}]_vars

====
